---- MODULE Spec2Model ----
(***************************************************************************)
(* A model of backend/main.py: a FastAPI application with three POST       *)
(* handlers (group-threshold, classify-art-style, classify-mood-theme)     *)
(* over a CLIP model loaded once at import time.                           *)
(*                                                                         *)
(* Strings are sequences of one-character strings, so that str.strip() is  *)
(* computed rather than assumed.  Similarities are integers in tenths      *)
(* (One = 1.0).  An embedding is identified by the text or the image       *)
(* content it was computed from; the CLIP model is a fixed table of        *)
(* similarities over these.                                                *)
(*                                                                         *)
(* The three handlers are `async def` coroutines without any await: once   *)
(* started, a handler occupies the event loop until it returns or raises.  *)
(* The frame of the running handler is the record h; a blocking            *)
(* requests.get is the handler sitting at a *_fetch position.              *)
(***************************************************************************)
EXTENDS Integers, Sequences, FiniteSets, TLC

VARIABLES
    remote,   \* what a GET of each URL yields now: "FAIL" or an image content
    clip_model, \* the weights of the CLIP model loaded at import time
    running,  \* TRUE while a handler coroutine occupies the event loop
    h,        \* the frame (locals and position) of that handler
    ref       \* a remembered earlier response, for comparing repeated calls

vars == <<remote, clip_model, running, h, ref>>

----------------------------------------------------------------------------
(* Bounds *)

MaxItems == 3

----------------------------------------------------------------------------
(* Strings and request payloads *)

Whitespace == {" ", "\t", "\n"}

RECURSIVE lstrip(_)
lstrip(s) ==
    IF s = <<>> THEN s
    ELSE IF Head(s) \in Whitespace THEN lstrip(Tail(s)) ELSE s

RECURSIVE rstrip(_)
rstrip(s) ==
    IF s = <<>> THEN s
    ELSE IF s[Len(s)] \in Whitespace THEN rstrip(SubSeq(s, 1, Len(s) - 1)) ELSE s

\* str.strip()
strip(s) == rstrip(lstrip(s))

\* truth value of a str: non-empty
Truthy(s) == Len(s) > 0

TextA == <<"a">>
TextB == <<"b", " ">>
TextPool == {<<>>, <<" ">>, TextA, TextB}

UrlU == <<"u">>
UrlV == <<" ", "v">>
UrlPool == {<<" ">>, UrlU, UrlV}

SeqsUpTo(S, n) == UNION {[1..k -> S] : k \in 0..n}

\* ClassifyRequest: texts: list[str], images: list[str]
ClassifyRequest ==
    {p \in [texts : SeqsUpTo(TextPool, MaxItems), images : SeqsUpTo(UrlPool, MaxItems)] :
        Len(p.texts) + Len(p.images) <= MaxItems}

Endpoints == {"group-threshold", "classify-art-style", "classify-mood-theme"}

----------------------------------------------------------------------------
(* The remote world and the CLIP model *)

Contents == {"X", "Y"}
Outcomes == {"FAIL"} \cup Contents

One == 10
threshold == 3

art_styles ==
    <<"impressionism", "abstract", "realistic", "minimalist",
      "surreal", "vintage", "modern", "classical", "pop art",
      "cubism", "expressionism", "renaissance", "baroque", "contemporary">>

mood_categories ==
    <<"happy", "sad", "energetic", "calm", "mysterious", "romantic", "aggressive", "peaceful">>

theme_categories ==
    <<"nature", "urban", "technology", "art", "food", "travel", "fashion", "sports",
      "business", "education">>

\* CLIPModel.from_pretrained("openai/clip-vit-base-patch32")
Pretrained == "pretrained"

\* clip_model.get_text_features / get_image_features, normalised: an embedding is
\* identified by the weights that computed it and by what it was computed from
TextEmbed(m, t) == [kind |-> "text", by |-> m, of |-> t]
ImageEmbed(m, c) == [kind |-> "image", by |-> m, of |-> c]

\* variant: a forward pass that updates the weights it ran with
Drift(m) == "drifted"

\* inference under torch.no_grad() leaves the weights as they are
NoGrad(m) == m

\* the similarities below are those of the pretrained weights; other weights
\* give other numbers
Under(e, v) == IF e.by = Pretrained THEN v ELSE [k \in 1..Len(v) |-> 0 - v[Len(v) + 1 - k]]

\* cosine similarity of a text embedding and an image embedding, in tenths
TextImageSim(t, c) ==
    CASE t = TextA /\ c = "X" -> 8
      [] t = TextA /\ c = "Y" -> 7
      [] t = TextB /\ c = "X" -> 3
      [] t = TextB /\ c = "Y" -> 9
      [] OTHER -> 0

\* cosine similarities of an embedding against the 14 style labels
StyleSims(e) ==
    Under(e, IF e.of = "X" THEN <<1, 2, 6, 0, 3, -1, 2, 4, 6, 1, 0, 2, 3, 1>>
             ELSE <<0, 1, 2, 1, 0, 3, 2, 1, 0, 2, 1, 3, 2, 5>>)

\* cosine similarities of an embedding against the 8 mood labels
MoodSims(e) ==
    Under(e, CASE e.of = "X" -> <<2, 5, 1, 5, 0, 3, 2, 4>>
               [] e.of = "Y" -> <<1, 0, 2, 3, 1, 2, 0, 6>>
               [] e.of = TextA -> <<7, 1, 7, 2, 0, 1, 3, 2>>
               [] OTHER -> <<0, 4, 1, 2, 3, 1, -2, 1>>)

\* cosine similarities of an embedding against the 10 theme labels
ThemeSims(e) ==
    Under(e, CASE e.of = "X" -> <<3, 1, 0, 8, 2, 1, 8, 0, 1, 2>>
               [] e.of = "Y" -> <<9, 1, 0, 2, 2, 1, 3, 0, 1, 2>>
               [] e.of = TextA -> <<1, 1, 0, 2, 2, 1, 3, 0, 1, 4>>
               [] OTHER -> <<0, 2, 5, 1, 5, 1, 0, 3, 5, 2>>)

\* variant: the index of the last maximal value
argmax_last(v) ==
    CHOOSE k \in 1..Len(v) :
        /\ \A j \in 1..Len(v) : v[j] <= v[k]
        /\ \A j \in (k + 1)..Len(v) : v[j] < v[k]

\* torch.argmax: the index of the first maximal value
argmax(v) ==
    CHOOSE k \in 1..Len(v) :
        /\ \A j \in 1..Len(v) : v[j] <= v[k]
        /\ \A j \in 1..(k - 1) : v[j] < v[k]

----------------------------------------------------------------------------
(* The handler frame *)

NoBody == [none |-> TRUE]
NoRef == [none |-> TRUE]

\* the locals of a handler call that has just started
Frame(e, p) ==
    [ep |-> e, texts |-> p.texts, images |-> p.images,
     pc |-> CASE e = "group-threshold" -> "g_check"
              [] e = "classify-art-style" -> "a_loop"
              [] OTHER -> "m_text",
     i |-> 1,
     valid_texts |-> <<>>, text_embeddings |-> <<>>,
     image_embeddings |-> <<>>, valid_image_urls |-> <<>>, results |-> <<>>,
     status |-> "none", body |-> NoBody,
     fetchLog |-> <<>>, embedLog |-> <<>>, got |-> <<>>,
     transient |-> FALSE]

Idle ==
    [ep |-> "none", texts |-> <<>>, images |-> <<>>, pc |-> "idle", i |-> 1,
     valid_texts |-> <<>>, text_embeddings |-> <<>>,
     image_embeddings |-> <<>>, valid_image_urls |-> <<>>, results |-> <<>>,
     status |-> "none", body |-> NoBody,
     fetchLog |-> <<>>, embedLog |-> <<>>, got |-> <<>>,
     transient |-> FALSE]

Init ==
    /\ remote \in [{UrlU, UrlV} -> Outcomes]
    /\ clip_model = Pretrained
    /\ running = FALSE
    /\ h = Idle
    /\ ref = NoRef

\* `async def` without await: a handler starts only when no other handler is
\* on the event loop
LoopFree == ~running

\* a request has arrived and the event loop starts its handler on the parsed body
Start ==
    /\ LoopFree
    /\ \E e \in Endpoints, p \in ClassifyRequest :
          h' = Frame(e, p)
    /\ running' = TRUE
    /\ UNCHANGED <<remote, clip_model, ref>>

\* the handler returns `b` (or raises)
Return(f, st, b) == [f EXCEPT !.pc = "returned", !.status = st, !.body = b]

At(label) == running /\ h.pc = label

\* a step of the running handler that calls no model
Step(f) ==
    /\ h' = f
    /\ UNCHANGED <<remote, clip_model, running, ref>>

\* a step of the running handler that runs the CLIP model
Infer(f) ==
    /\ h' = f
    /\ clip_model' = NoGrad(clip_model)
    /\ UNCHANGED <<remote, running, ref>>

\* requests.get(url, stream=True) ... get_image_features: the content, or a failure
Fetch(url) == remote[url]

\* positions of texts that survive `if text.strip()`
RECURSIVE ValidIdxFrom(_, _)
ValidIdxFrom(s, k) ==
    IF k > Len(s) THEN <<>>
    ELSE IF Truthy(strip(s[k])) THEN <<k>> \o ValidIdxFrom(s, k + 1)
    ELSE ValidIdxFrom(s, k + 1)

ValidIdx(s) == ValidIdxFrom(s, 1)

----------------------------------------------------------------------------
(* POST /group-threshold *)

\* variant: only `not texts`
NoTexts(texts) == texts = <<>>

\* not texts or not any(text.strip() for text in texts)
NoUsableText(texts) ==
    texts = <<>> \/ ~(\E k \in 1..Len(texts) : Truthy(strip(texts[k])))

\* variant: [text.strip() for text in texts if text.strip()]
StrippedTexts(texts) ==
    LET kept == SelectSeq(texts, LAMBDA t : Truthy(strip(t)))
    IN [k \in 1..Len(kept) |-> strip(kept[k])]

\* [text for text in texts if text.strip()]
ValidTexts(texts) == SelectSeq(texts, LAMBDA t : Truthy(strip(t)))

GroupCheck ==
    /\ At("g_check")
    /\ IF NoUsableText(h.texts)
       THEN Step(Return(h, "ok", <<>>))
       ELSE Step([h EXCEPT !.valid_texts = ValidTexts(h.texts), !.pc = "g_embed"])

\* one clip_processor / get_text_features call over all of valid_texts
GroupEmbedTexts ==
    /\ At("g_embed")
    /\ Infer([h EXCEPT
            !.text_embeddings =
                [k \in 1..Len(h.valid_texts) |-> TextEmbed(clip_model, h.valid_texts[k])],
            !.embedLog = Append(h.embedLog, ValidIdx(h.texts)),
            !.i = 1,
            !.pc = "g_loop"])

\* variant: similarity >= (1 - threshold)
IsMatchInclusive(similarity) == similarity >= One - threshold

\* similarity > (1 - threshold)
IsMatch(similarity) == similarity > One - threshold

cosine_similarity(t_vec, i_vec) ==
    IF t_vec.by = Pretrained /\ i_vec.by = Pretrained
    THEN TextImageSim(t_vec.of, i_vec.of)
    ELSE 0 - TextImageSim(t_vec.of, i_vec.of)

\* the inner loop over image_embeddings for one text
RECURSIVE MatchesFrom(_, _, _, _)
MatchesFrom(t_vec, embs, urls, j) ==
    IF j > Len(embs) THEN <<>>
    ELSE (IF IsMatch(cosine_similarity(t_vec, embs[j])) THEN <<urls[j]>> ELSE <<>>)
         \o MatchesFrom(t_vec, embs, urls, j + 1)

\* the loop over text_embeddings building `grouped`
Grouped(f) ==
    [k \in 1..Len(f.text_embeddings) |->
        [text |-> f.valid_texts[k],
         matches |-> MatchesFrom(f.text_embeddings[k], f.image_embeddings,
                                 f.valid_image_urls, 1)]]

\* variant: the failed URL is tried again
SameIndex(k) == k

\* the index the image loop moves to after the except branch
AfterFailure(k) == k + 1

\* for url in image_urls: if url.strip(): ... requests.get(url)
GroupLoop ==
    /\ At("g_loop")
    /\ IF h.i > Len(h.images)
       THEN Step([h EXCEPT !.pc = "g_compare"])
       ELSE IF ~Truthy(strip(h.images[h.i]))
       THEN Step([h EXCEPT !.i = h.i + 1])
       ELSE Step([h EXCEPT !.pc = "g_fetch", !.fetchLog = Append(h.fetchLog, h.i)])

\* the blocking fetch returns or raises; except: pass
GroupFetchReturn ==
    /\ At("g_fetch")
    /\ LET url == h.images[h.i]
           o == Fetch(url)
           f == [h EXCEPT !.got = Append(h.got, <<h.i, o>>), !.pc = "g_loop"]
       IN IF o = "FAIL"
          THEN Step([f EXCEPT !.i = AfterFailure(h.i)])
          ELSE Infer([f EXCEPT !.image_embeddings =
                                   Append(h.image_embeddings, ImageEmbed(clip_model, o)),
                              !.valid_image_urls = Append(h.valid_image_urls, url),
                              !.i = h.i + 1])

GroupCompare ==
    /\ At("g_compare")
    /\ Step(Return([h EXCEPT !.results = Grouped(h)], "ok", Grouped(h)))

----------------------------------------------------------------------------
(* POST /classify-art-style *)

ImageError == "Failed to process image: error"

\* results.append({...}) of the success branch
StyleRecord(url, e) ==
    LET similarities == StyleSims(e)
        top_style_idx == argmax(similarities)
    IN [image |-> url, style |-> art_styles[top_style_idx],
        confidence |-> similarities[top_style_idx]]

\* results.append({...}) of `except Exception as img_error`
StyleErrorRecord(url) ==
    [image |-> url, style |-> "unknown", confidence |-> 0, error |-> ImageError]

ArtLoop ==
    /\ At("a_loop")
    /\ IF h.i > Len(h.images)
       THEN Step(Return(h, "ok", [classifications |-> h.results]))
       ELSE IF ~Truthy(strip(h.images[h.i]))
       THEN Step([h EXCEPT !.i = h.i + 1])
       ELSE Step([h EXCEPT !.pc = "a_fetch", !.fetchLog = Append(h.fetchLog, h.i)])

ArtFetchReturn ==
    /\ At("a_fetch")
    /\ LET url == h.images[h.i]
           o == Fetch(url)
           f == [h EXCEPT !.got = Append(h.got, <<h.i, o>>), !.pc = "a_loop"]
       IN IF o = "FAIL"
          THEN Step([f EXCEPT !.results = Append(h.results, StyleErrorRecord(url)),
                              !.i = AfterFailure(h.i)])
          ELSE Infer([f EXCEPT !.results =
                                   Append(h.results, StyleRecord(url, ImageEmbed(clip_model, o))),
                              !.i = h.i + 1])

----------------------------------------------------------------------------
(* POST /classify-mood-theme *)

\* argmax over the mood similarities, and independently over the theme similarities
TopMood(e) == argmax(MoodSims(e))

\* variant: the theme is indexed with the mood's argmax
TopThemeOfMood(e) == argmax(MoodSims(e))

TopTheme(e) == argmax(ThemeSims(e))

\* results.append({...}) of a text, or of an image that was fetched and embedded
MoodRecord(type, content, e) ==
    [type |-> type, content |-> content,
     mood |-> mood_categories[TopMood(e)],
     theme |-> theme_categories[TopTheme(e)],
     mood_confidence |-> MoodSims(e)[TopMood(e)],
     theme_confidence |-> ThemeSims(e)[TopTheme(e)]]

\* results.append({...}) of `except Exception as e`
MoodErrorRecord(url) == [type |-> "image", content |-> url, error |-> ImageError]

\* variant: results.insert(0, record)
InsertResult(results, record) == <<record>> \o results

\* results.append(record)
AddResult(results, record) == Append(results, record)

\* for text in texts: if text.strip(): ... one iteration
MoodText ==
    /\ At("m_text")
    /\ IF h.i > Len(h.texts)
       THEN Step([h EXCEPT !.i = 1, !.pc = "m_loop"])
       ELSE IF ~Truthy(strip(h.texts[h.i]))
       THEN Step([h EXCEPT !.i = h.i + 1])
       ELSE Infer([h EXCEPT
                 !.results = AddResult(h.results,
                     MoodRecord("text", h.texts[h.i], TextEmbed(clip_model, h.texts[h.i]))),
                 !.embedLog = Append(h.embedLog, <<h.i>>),
                 !.i = h.i + 1])

MoodLoop ==
    /\ At("m_loop")
    /\ IF h.i > Len(h.images)
       THEN Step(Return(h, "ok", h.results))
       ELSE IF ~Truthy(strip(h.images[h.i]))
       THEN Step([h EXCEPT !.i = h.i + 1])
       ELSE Step([h EXCEPT !.pc = "m_fetch", !.fetchLog = Append(h.fetchLog, h.i)])

MoodFetchReturn ==
    /\ At("m_fetch")
    /\ LET url == h.images[h.i]
           o == Fetch(url)
           f == [h EXCEPT !.got = Append(h.got, <<h.i, o>>), !.pc = "m_loop"]
       IN IF o = "FAIL"
          THEN Step([f EXCEPT !.results = AddResult(h.results, MoodErrorRecord(url)),
                              !.i = AfterFailure(h.i)])
          ELSE Infer([f EXCEPT
                    !.results = AddResult(h.results,
                                    MoodRecord("image", url, ImageEmbed(clip_model, o))),
                    !.i = h.i + 1])

----------------------------------------------------------------------------
(* Failures outside the per-image try blocks, and the environment *)

\* positions whose code runs outside every per-image try block
OutsideTry == {"g_embed", "g_loop", "g_compare", "a_loop", "m_text", "m_loop"}

ArtFailure == "Art style classification failed: error"

\* variant: no handler has an enclosing try
PropagateUncaught(e) == "unhandled"

\* where an exception raised outside the per-image try ends up: the art-style
\* handler's outer `except Exception` raises HTTPException(500); the other two
\* handlers have no enclosing try
Propagate(e) ==
    IF e = "classify-art-style" THEN "http500" ELSE "unhandled"

\* an unexpected failure (tokenizer, model, allocation) outside a per-image try
InternalFault ==
    /\ running
    /\ h.pc \in OutsideTry
    /\ LET st == Propagate(h.ep)
       IN Step(Return([h EXCEPT !.transient = TRUE], st,
                      IF st = "http500" THEN [detail |-> ArtFailure] ELSE NoBody))

\* what a URL serves changes (or it goes down, or comes back)
RemoteChange ==
    /\ \E u \in DOMAIN remote, o \in Outcomes :
          /\ remote[u] # o
          /\ remote' = [remote EXCEPT ![u] = o]
    /\ ref' = NoRef
    /\ UNCHANGED <<clip_model, running, h>>

Response(f) == [ep |-> f.ep, texts |-> f.texts, images |-> f.images,
                status |-> f.status, body |-> f.body]

Returned == running /\ h.pc = "returned"

\* the response goes out, the frame is gone and the event loop is free
Respond ==
    /\ Returned
    /\ h' = Idle
    /\ running' = FALSE
    /\ UNCHANGED <<remote, clip_model, ref>>

\* every fetch of the running call got what its URL serves now
Consistent ==
    \A k \in 1..Len(h.got) : remote[h.images[h.got[k][1]]] = h.got[k][2]

\* the inputs whose responses are remembered
Probes ==
    {[texts |-> <<TextB, TextA>>, images |-> <<UrlU>>],
     [texts |-> <<TextA>>, images |-> <<UrlV, UrlU>>]}

\* the same, and the response is kept as the reference for later calls with the
\* same input, for as long as no URL changes what it serves
Remember ==
    /\ Returned
    /\ Consistent
    /\ ~h.transient
    /\ [texts |-> h.texts, images |-> h.images] \in Probes
    /\ ref = NoRef
    /\ ref' = Response(h)
    /\ h' = Idle
    /\ running' = FALSE
    /\ UNCHANGED <<remote, clip_model>>

Handler ==
    \/ GroupCheck
    \/ GroupEmbedTexts
    \/ GroupLoop
    \/ GroupFetchReturn
    \/ GroupCompare
    \/ ArtLoop
    \/ ArtFetchReturn
    \/ MoodText
    \/ MoodLoop
    \/ MoodFetchReturn
    \/ Respond

Next ==
    \/ Start
    \/ Handler
    \/ InternalFault
    \/ RemoteChange

Spec == Init /\ [][Next]_vars

NextRepeat == Next \/ Remember

SpecRepeat == Init /\ [][NextRepeat]_vars

\* every fetch returns and the event loop keeps running the handler it started
FairSpec == Init /\ [][Next]_vars /\ WF_vars(Handler)

----------------------------------------------------------------------------
(* Vocabulary of the properties, stated without the handlers' own helpers *)

Group == running /\ h.ep = "group-threshold"
Art == running /\ h.ep = "classify-art-style"
Mood == running /\ h.ep = "classify-mood-theme"

ReturnedOk == Returned /\ h.status = "ok"

Range(s) == {s[k] : k \in 1..Len(s)}

\* a string with at least one character that is not whitespace
NonBlank(s) == \E k \in 1..Len(s) : s[k] \notin Whitespace

\* the positions of the non-blank entries of a list, in order
NonBlankIdx(s) == SelectSeq([k \in 1..Len(s) |-> k], LAMBDA k : NonBlank(s[k]))

\* the non-blank entries of a list, in order, as given
NonBlankOf(s) == [n \in 1..Len(NonBlankIdx(s)) |-> s[NonBlankIdx(s)[n]]]

StrictlyIncreasing(s) == \A a, b \in 1..Len(s) : a < b => s[a] < s[b]

IsPrefix(s, t) == Len(s) <= Len(t) /\ \A k \in 1..Len(s) : s[k] = t[k]

\* what the fetch of images[j] yielded in the running call, "NONE" if not fetched
OutcomeAt(j) ==
    IF \E n \in 1..Len(h.got) : h.got[n][1] = j
    THEN h.got[CHOOSE n \in 1..Len(h.got) : h.got[n][1] = j][2]
    ELSE "NONE"

\* k is the first position of a maximal entry of v
FirstMax(v, k) ==
    /\ k \in 1..Len(v)
    /\ \A j \in 1..Len(v) : v[j] <= v[k]
    /\ \A j \in 1..Len(v) : v[j] = v[k] => k <= j

----------------------------------------------------------------------------
(* C1 *)

\* C1: a group-threshold call whose texts list is empty or holds only empty or
\* whitespace-only strings never leaves the entry check for the embedding or the
\* image loop: no URL is fetched, nothing is embedded, and what it returns is
\* exactly the empty list, whatever images holds.
C1_ShortCircuit ==
    (Group /\ \A k \in 1..Len(h.texts) : ~NonBlank(h.texts[k])) =>
        /\ h.pc \in {"g_check", "returned"}
        /\ h.fetchLog = <<>> /\ h.got = <<>>
        /\ h.embedLog = <<>> /\ h.image_embeddings = <<>>
        /\ h.pc = "returned" => (h.status = "ok" /\ h.body = <<>>)

C1_Witness ==
    /\ Group /\ Returned
    /\ h.texts # <<>> /\ \A k \in 1..Len(h.texts) : ~NonBlank(h.texts[k])
    /\ \E j \in 1..Len(h.images) : NonBlank(h.images[j])
    /\ h.status = "ok" /\ h.body = <<>>

----------------------------------------------------------------------------
(* C2 *)

\* the URL occurrences the match rule admits for text t, in input order
Admitted(t) ==
    LET ok(j) == /\ NonBlank(h.images[j])
                 /\ OutcomeAt(j) \in Contents
                 /\ TextImageSim(t, OutcomeAt(j)) > 7
        idx == SelectSeq([j \in 1..Len(h.images) |-> j], ok)
    IN [n \in 1..Len(idx) |-> h.images[idx[n]]]

\* C2: in every group a group-threshold call returns, the matches list holds
\* exactly the URL occurrences that are non-blank, were fetched and embedded
\* successfully and whose similarity to the group's text is strictly above 0.7
\* (= 1 - 0.3); a failed URL appears nowhere in the response, and with no images
\* every matches list is empty.
C2_MatchRule ==
    (Group /\ ReturnedOk) =>
        \A k \in 1..Len(h.body) :
            /\ DOMAIN h.body[k] = {"text", "matches"}
            /\ h.body[k].matches = Admitted(h.body[k].text)
            /\ h.images = <<>> => h.body[k].matches = <<>>

C2_Witness ==
    /\ Group /\ ReturnedOk
    /\ \E k \in 1..Len(h.body) :
          /\ h.body[k].matches # <<>>
          /\ \E j \in 1..Len(h.images) :
                /\ OutcomeAt(j) \in Contents
                /\ TextImageSim(h.body[k].text, OutcomeAt(j)) = 7

----------------------------------------------------------------------------
(* C3 *)

\* C3: every record the art-style handler has produced carries one of the 14
\* style labels or "unknown"; it is "unknown" exactly when the record has an
\* error field, which is exactly when the image's fetch or embedding failed; an
\* error record has confidence 0.0, and a success record carries the label at the
\* first maximal similarity, with that similarity as confidence.  The response
\* wraps these records as `classifications`.
C3_StyleLabel ==
    Art =>
        /\ Len(h.results) = Len(h.got)
        /\ \A n \in 1..Len(h.results) :
              LET r == h.results[n]
                  o == h.got[n][2]
                  v == StyleSims(ImageEmbed(Pretrained, o))
              IN /\ r.style \in Range(art_styles) \cup {"unknown"}
                 /\ Len(art_styles) = 14
                 /\ ("error" \in DOMAIN r) <=> (r.style = "unknown")
                 /\ ("error" \in DOMAIN r) <=> (o = "FAIL")
                 /\ "error" \in DOMAIN r => (r.confidence = 0 /\ r.error # "")
                 /\ "error" \notin DOMAIN r =>
                       \E k \in 1..14 : /\ FirstMax(v, k)
                                        /\ r.style = art_styles[k]
                                        /\ r.confidence = v[k]
        /\ ReturnedOk => h.body = [classifications |-> h.results]

C3_Witness ==
    /\ Art /\ ReturnedOk
    /\ \E n \in 1..Len(h.body.classifications) :
          "error" \in DOMAIN h.body.classifications[n]
    /\ \E n \in 1..Len(h.body.classifications) :
          h.body.classifications[n].style = "realistic"

----------------------------------------------------------------------------
(* C4 *)

\* the embedding the n-th mood/theme record was computed from (kind "none": the
\* image's fetch or embedding failed)
MoodSource(n) ==
    IF h.results[n].type = "text"
    THEN TextEmbed(Pretrained, h.results[n].content)
    ELSE LET o == h.got[n - Len(h.embedLog)][2]
         IN IF o = "FAIL" THEN [kind |-> "none", by |-> Pretrained, of |-> o]
            ELSE ImageEmbed(Pretrained, o)

\* C4: every mood/theme record without an error field has its mood among the 8
\* mood labels and its theme among the 10 theme labels, each at the first maximum
\* of its own similarity vector; every record with an error field is an image
\* record holding only type, content and error; no text record has an error.
C4_MoodTheme ==
    Mood =>
        \A n \in 1..Len(h.results) :
            LET r == h.results[n]
            IN /\ r.type \in {"text", "image"}
               /\ Len(mood_categories) = 8 /\ Len(theme_categories) = 10
               /\ "error" \notin DOMAIN r =>
                     /\ DOMAIN r = {"type", "content", "mood", "theme",
                                    "mood_confidence", "theme_confidence"}
                     /\ MoodSource(n).kind # "none"
                     /\ \E k \in 1..8 : /\ FirstMax(MoodSims(MoodSource(n)), k)
                                       /\ r.mood = mood_categories[k]
                                       /\ r.mood_confidence = MoodSims(MoodSource(n))[k]
                     /\ \E k \in 1..10 : /\ FirstMax(ThemeSims(MoodSource(n)), k)
                                        /\ r.theme = theme_categories[k]
                                        /\ r.theme_confidence = ThemeSims(MoodSource(n))[k]
               /\ "error" \in DOMAIN r =>
                     /\ r.type = "image"
                     /\ DOMAIN r = {"type", "content", "error"}
               /\ r.type = "text" => "error" \notin DOMAIN r

C4_Witness ==
    /\ Mood /\ ReturnedOk
    /\ \E n \in 1..Len(h.body) : h.body[n].type = "text"
    /\ \E n \in 1..Len(h.body) : "error" \in DOMAIN h.body[n]
    /\ \E n \in 1..Len(h.body) :
          h.body[n].type = "image" /\ "error" \notin DOMAIN h.body[n]

----------------------------------------------------------------------------
(* C5 *)

\* s is t with some entries left out, order kept
IsSubsequence(s, t) ==
    \E keep \in SUBSET (1..Len(t)) :
        LET idx == SelectSeq([j \in 1..Len(t) |-> j], LAMBDA j : j \in keep)
        IN s = [n \in 1..Len(idx) |-> t[idx[n]]]

\* C5: (1) a group-threshold call that passes the entry check returns one group
\* per non-blank text, in input order, each with the text exactly as given and
\* with matches a subsequence of the input images; (2) classify-art-style returns
\* one record per non-blank URL, in input order, each with that URL as `image`,
\* whether the image succeeded or failed.  Blank entries yield no output entry.
C5_OrderAndCount ==
    /\ (Group /\ ReturnedOk /\ NonBlankIdx(h.texts) # <<>>) =>
          /\ [k \in 1..Len(h.body) |-> h.body[k].text] = NonBlankOf(h.texts)
          /\ \A k \in 1..Len(h.body) :
                IsSubsequence(h.body[k].matches, h.images)
    /\ (Art /\ ReturnedOk) =>
          [n \in 1..Len(h.body.classifications) |-> h.body.classifications[n].image]
              = NonBlankOf(h.images)

C5_Witness ==
    /\ Group /\ ReturnedOk
    /\ Len(h.texts) = 3 /\ Len(h.body) = 2
    /\ h.body[1].text = TextB /\ h.body[2].text = TextA

----------------------------------------------------------------------------
(* C6 *)

\* C6: what classify-mood-theme returns is one "text" record per non-blank text,
\* in input order and with the text as content, followed by one "image" record
\* per non-blank URL, in input order and with the URL as content, success or
\* error; so no image record precedes a text record, the length is the number of
\* non-blank texts plus non-blank URLs, and empty inputs give the empty list.
C6_CombinedList ==
    (Mood /\ ReturnedOk) =>
        LET ts == NonBlankOf(h.texts)
            us == NonBlankOf(h.images)
        IN /\ Len(h.body) = Len(ts) + Len(us)
           /\ \A n \in 1..Len(h.body) :
                 IF n <= Len(ts)
                 THEN h.body[n].type = "text" /\ h.body[n].content = ts[n]
                 ELSE h.body[n].type = "image" /\ h.body[n].content = us[n - Len(ts)]
           /\ (h.texts = <<>> /\ h.images = <<>>) => h.body = <<>>

C6_Witness ==
    /\ Mood /\ ReturnedOk
    /\ Len(h.body) = 2 /\ Len(h.texts) = 2
    /\ h.body[1].type = "text" /\ h.body[2].type = "image"

----------------------------------------------------------------------------
(* C7 *)

SameCall == ref # NoRef /\ ref.ep = h.ep /\ ref.texts = h.texts /\ ref.images = h.images

\* C7: a call that returns with the same endpoint, texts and images as a
\* remembered earlier call, with every URL still serving what it served then and
\* no internal failure in either call, returns the same status and the same body
\* (labels, matches, error and success records), whatever calls ran in between.
C7_Idempotent ==
    (Returned /\ Consistent /\ ~h.transient /\ SameCall) =>
        (h.status = ref.status /\ h.body = ref.body)

C7_Witness ==
    /\ Returned /\ Consistent /\ ~h.transient /\ SameCall
    /\ h.ep = "classify-mood-theme"
    /\ Len(h.body) = 3
    /\ "error" \notin DOMAIN h.body[3]

----------------------------------------------------------------------------
(* C8 *)

\* C8: a failure outside the per-image try blocks ends the art-style call with an
\* HTTP 500 that carries a message, and ends a group-threshold or mood/theme call
\* as an unhandled error with no result list, whatever records were computed
\* before; a call in which only image fetches or embeddings failed returns its
\* result normally.
C8_FailureBoundary ==
    Returned =>
        /\ h.status \in {"ok", "http500", "unhandled"}
        /\ h.transient =>
              h.status = (IF h.ep = "classify-art-style" THEN "http500" ELSE "unhandled")
        /\ ~h.transient => h.status = "ok"
        /\ h.status = "http500" => ("detail" \in DOMAIN h.body /\ h.body.detail # "")
        /\ h.status = "unhandled" => h.body = NoBody

C8_Witness ==
    /\ Art /\ Returned
    /\ h.status = "http500"
    /\ \E n \in 1..Len(h.results) : "error" \in DOMAIN h.results[n]

----------------------------------------------------------------------------
(* C9 *)

Fetching == running /\ h.pc \in {"g_fetch", "a_fetch", "m_fetch"}

\* C9: while a call is blocked in an image fetch, the handler of another request
\* can start (and so run and return).
C9_ConcurrentServing == Fetching => ENABLED Start

----------------------------------------------------------------------------
(* C10 *)

RECURSIVE Flat(_)
Flat(ss) == IF ss = <<>> THEN <<>> ELSE Head(ss) \o Flat(Tail(ss))

\* one pass over the images, in input order, one fetch at a time, none repeated
ImagePass ==
    /\ IsPrefix(h.fetchLog, NonBlankIdx(h.images))
    /\ StrictlyIncreasing(h.fetchLog)
    /\ Len(h.got) <= Len(h.fetchLog) /\ Len(h.fetchLog) <= Len(h.got) + 1
    /\ \A n \in 1..Len(h.got) : h.got[n][1] = h.fetchLog[n]
    /\ Len(h.fetchLog) = Len(h.got) + 1 <=> Fetching

\* one pass over the texts, in input order, none embedded twice, before any image
TextPass ==
    /\ IsPrefix(Flat(h.embedLog), NonBlankIdx(h.texts))
    /\ StrictlyIncreasing(Flat(h.embedLog))
    /\ (h.fetchLog # <<>> /\ ~Art) => Flat(h.embedLog) = NonBlankIdx(h.texts)
    /\ Art => h.embedLog = <<>>

\* every embedding call takes a single text
OneTextPerCall == \A n \in 1..Len(h.embedLog) : Len(h.embedLog[n]) = 1

\* how far the running call has come: its phase, then its loop index, then
\* whether it is inside the fetch of that index
Width(f) == 2 * (Len(f.texts) + Len(f.images)) + 4

Phase(f) ==
    CASE f.pc \in {"g_check", "a_loop", "a_fetch", "m_text"} -> 0
      [] f.pc \in {"g_embed", "m_loop", "m_fetch"} -> 1
      [] f.pc \in {"g_loop", "g_fetch"} -> 2
      [] f.pc = "g_compare" -> 3
      [] OTHER -> 4

Rank(f) ==
    Phase(f) * Width(f) + 2 * f.i
        + (IF f.pc \in {"g_fetch", "a_fetch", "m_fetch"} THEN 1 ELSE 0)

\* the running call is never stuck (in a fetch, its next step is the fetch's
\* return), every step takes it further, and it cannot go further than a number
\* of steps linear in the size of its input: it returns after one pass
OnePassToReturn ==
    /\ [](running => (ENABLED Handler /\ Rank(h) <= 5 * Width(h)))
    /\ [][(running /\ running' /\ h' # h) => Rank(h') > Rank(h)]_vars

\* C10 as stated: no retries and a single pass, every item processed one at a
\* time, and the call returns if every fetch does.
C10_OneAtATime ==
    /\ [](running => (ImagePass /\ TextPass /\ OneTextPerCall))
    /\ OnePassToReturn

\* C10, amended: no retries and a single pass; image URLs are fetched one at a
\* time in input order; classify-mood-theme embeds its texts one per call, while
\* group-threshold embeds all its non-blank texts in one batched call; and the
\* call returns if every fetch does.
C10_SinglePass ==
    /\ [](running =>
            /\ ImagePass
            /\ TextPass
            /\ Mood => OneTextPerCall
            /\ Group => (Len(h.embedLog) <= 1 /\
                         \A n \in 1..Len(h.embedLog) : h.embedLog[n] = NonBlankIdx(h.texts)))
    /\ OnePassToReturn

\* the same conclusion as a liveness property of FairSpec: every call that has
\* started returns
Terminates == running ~> ~running

C10_Witness ==
    /\ Group /\ ReturnedOk
    /\ h.embedLog = << <<1, 2>> >>
    /\ h.got = << <<1, "FAIL">> >>

====
